---------------------------- MODULE Spec2Model ----------------------------
(***************************************************************************)
(* BlobGranuleRangesWorkload (fdbserver/workloads): the oracle and driver, *)
(* the checker and the unit runner of one workload client, against the     *)
(* blob range store; and the key generator of several clients.             *)
(*                                                                         *)
(* Keys are byte strings: sequences of byte values, ordered as the store   *)
(* orders them (lexicographically, a proper prefix first).                 *)
(***************************************************************************)
EXTENDS Integers, Sequences, FiniteSets, TLC

(***************************************************************************)
(* Bounds of the model.                                                    *)
(***************************************************************************)
\* newKey calls of one client (setup, driver and unit runner together);
\* setup leaves two of them to the driver and the unit runner
MaxKeys == 3
\* largest rangeCount of verifyRangeGapUnit
MaxRangeCount == 2
\* newKey calls of one client in a run of the key generators
MaxGenerations == 3
\* largest rangeCount of a verifyRangeGapUnit that is run on its own
MaxGapCount == 7
\* transient errors the reads of a scenario that is run on its own are given
MaxErrors == 2

(***************************************************************************)
(* Byte strings.                                                           *)
(***************************************************************************)
Min(a, b) == IF a < b THEN a ELSE b

\* a < b in the order of keys (operator< of StringRef: memcmp, then length)
KeyLess(a, b) ==
    LET n == Min(Len(a), Len(b))
        d == {i \in 1..n : a[i] # b[i]}
    IN  IF d = {} THEN Len(a) < Len(b)
        ELSE LET i == CHOOSE j \in d : \A k \in d : j <= k
             IN  a[i] < b[i]

KeyLeq(a, b) == a = b \/ KeyLess(a, b)

\* one digit of printf's %x
HexDigit(d) == IF d < 10 THEN 48 + d ELSE 87 + d

\* format("%08x", n), n a non-negative int32_t
format08x(n) == [i \in 1..8 |-> HexDigit((n \div (16 ^ (8 - i))) % 16)]

\* UID::toString of randomUniqueID(): 32 hex digits, the two 64-bit halves.
\* The model's identifiers are small: the first 24 digits are zero.
uidToString(u) == [i \in 1..24 |-> 48] \o format08x(u)

\* strinc: the first key after every key that has the given prefix (the
\* trailing 0xff bytes dropped, the last byte left incremented)
strinc(s) ==
    LET keep == {i \in 1..Len(s) : s[i] # 255}
        last == CHOOSE i \in keep : \A k \in keep : k <= i
    IN  [i \in 1..last |-> IF i = last THEN s[i] + 1 ELSE s[i]]

\* Key::withSuffix
withSuffix(k, suffix) == k \o suffix

\* KeyRangeRef(begin, end)
KeyRangeRef(b, e) == [begin |-> b, end |-> e]

\* the range that holds the one key nextRangeKey
SingleKeyRange(nextRangeKey) ==
    KeyRangeRef(nextRangeKey, nextRangeKey \o <<0>>)

\* the range of all keys with prefix nextRangeKey
PrefixRange(nextRangeKey) == KeyRangeRef(nextRangeKey, strinc(nextRangeKey))

\* KeyRangeRef::intersects
Intersects(r, s) == KeyLess(r.begin, s.end) /\ KeyLess(s.begin, r.end)

\* r lies within s
Within(r, s) == KeyLeq(s.begin, r.begin) /\ KeyLeq(r.end, s.end)


(***************************************************************************)
(* The blob range store: the contract the workload consumes.               *)
(* blob: the blobbified ranges; gran: the granules the blob manager has    *)
(* assigned; purge: the purges requested and not yet completed.            *)
(***************************************************************************)
\* the ranges of S ordered by their begin key
RECURSIVE SortRanges(_)
SortRanges(S) ==
    IF S = {} THEN << >>
    ELSE LET r == CHOOSE x \in S : \A y \in S : KeyLeq(x.begin, y.begin)
         IN  <<r>> \o SortRanges(S \ {r})

Overlapping(S, r) == {s \in S : Intersects(s, r)}

\* blobbifyRange: true for a range equal to a blobbified one or disjoint from
\* all of them, false for one that overlaps without being equal
blobbifyResult(B, r) == r \in B \/ Overlapping(B, r) = {}

blobbifyState(B, r) == IF blobbifyResult(B, r) THEN B \cup {r} ELSE B

\* unblobbifyRange: true for a blobbified range, and for a range that no
\* blobbified range intersects (nothing to do); false otherwise
unblobbifyResult(B, r) == r \in B \/ Overlapping(B, r) = {}

unblobbifyState(B, r) == B \ {r}

\* listBlobbifiedRanges: the blobbified ranges that intersect r, not clipped
listBlobbifiedRanges(B, r) == SortRanges(Overlapping(B, r))

\* getBlobGranuleRanges: the granules that intersect r, not clipped
getBlobGranuleRanges(G, r) == SortRanges(Overlapping(G, r))

\* a list of ranges covers r without a gap
CoversContiguously(g, r) ==
    /\ Len(g) >= 1
    /\ KeyLeq(g[1].begin, r.begin)
    /\ KeyLeq(r.end, g[Len(g)].end)
    /\ \A i \in 1..(Len(g) - 1) : g[i].end = g[i + 1].begin

\* verifyBlobRange: a version when the granules cover r without a gap,
\* invalidVersion otherwise
invalidVersion == -1

verifyBlobRange(G, r) ==
    IF CoversContiguously(getBlobGranuleRanges(G, r), r) THEN 1
    ELSE invalidVersion

\* a completed purge: forced, it removes what intersects the purged range
\* from the blob metadata; not forced, it leaves the metadata as it is
purgedSet(S, p) == IF p.force THEN S \ Overlapping(S, p.range) ELSE S

(***************************************************************************)
(* The state of one workload client and of the store.                      *)
(***************************************************************************)
VARIABLES
    clientId,        \* WorkloadContext::clientId
    sequential,      \* key generation mode
    sequentialGap,   \* stride of the sequential keys
    targetRanges,    \* ranges registered by setup
    nextKey,         \* the sequential key counter
    drawn,           \* the identifiers randomUniqueID has returned
    activeRanges,    \* the oracle: ranges believed blobbified
    inactiveRanges,  \* the oracle: ranges unregistered
    stopUnitClient,  \* the stop flag of the unit runner
    phase,           \* "setup", "ready", "running", "checking", "done"
    client,          \* the driver task (and setup's loop): pc, range, result
    unitClient,      \* the unit runner task
    checks,          \* the checkRange tasks of _check
    checkResult,     \* what check returned: "none" or "true"
    blob,            \* store: the blobbified ranges
    gran,            \* store: the granules
    purge,           \* store: the purges requested and not completed
    faithful,        \* the store keeps its contract
    failed,          \* the line of the ASSERT that ended the workload, or 0
    hist,            \* history: what the driver asked of the adapter and got
    peers            \* the key generators of the clients of one test run

vars == <<clientId, sequential, sequentialGap, targetRanges, nextKey, drawn,
          activeRanges, inactiveRanges, stopUnitClient, phase, client,
          unitClient, checks, checkResult, blob, gran, purge, faithful,
          failed, hist, peers>>

config == <<clientId, sequential, sequentialGap, targetRanges, faithful, peers>>
oracle == <<activeRanges, inactiveRanges>>
keygen == <<nextKey, drawn>>
store == <<blob, gran, purge>>

\* the identifiers the random source returns. The workload relies on an
\* identifier only in that it was not returned before, so the model draws
\* them in one order.
RandomIds == 1..MaxKeys
FreshIds(dr) == {u \in RandomIds \ dr : \A w \in RandomIds \ dr : u <= w}

\* a constructor that starts every client at the same key
firstKeyShared(id) == 0

\* nextKey = 10000000 * clientId (the model's counters stay far below 2^31,
\* the width of nextKey)
ClientStride == 10000000
firstKey(id) == ClientStride * id

\* newKey calls made when the generator is in state (nk, dr)
KeysMade(nk, dr) ==
    IF sequential THEN (nk - firstKey(clientId)) \div sequentialGap
    ELSE Cardinality(dr)

\* a sequential newKey that formats the next key and does not store it
newKeyNotStored(nk, dr) ==
    IF sequential
    THEN {[key |-> format08x(nk + sequentialGap), nextKey |-> nk, drawn |-> dr]}
    ELSE {[key |-> uidToString(u), nextKey |-> nk, drawn |-> dr \cup {u}] :
              u \in FreshIds(dr)}

\* newKey: the outcomes [key, nextKey, drawn] of one call in state (nk, dr)
newKey(nk, dr) ==
    IF sequential
    THEN {[key |-> format08x(nk + sequentialGap),
           nextKey |-> nk + sequentialGap, drawn |-> dr]}
    ELSE {[key |-> uidToString(u), nextKey |-> nk, drawn |-> dr \cup {u}] :
              u \in FreshIds(dr)}

\* "R_" + key, "U_" + key
PrefixR(key) == <<82, 95>> \o key
PrefixU(key) == <<85, 95>> \o key

\* swapAndPop(&vec, idx), idx counted from 1
swapAndPop(vec, idx) ==
    [j \in 1..(Len(vec) - 1) |-> IF j = idx THEN vec[Len(vec)] ELSE vec[j]]

\* the driver task: where it waits, the range it works on, what setRange
\* returned, whether its force purge has completed
Task(pc, range) ==
    [pc |-> pc, range |-> range, success |-> FALSE, purged |-> FALSE]
NoRange == KeyRangeRef(<< >>, << >>)

(***************************************************************************)
(* registerNewRange and unregisterRandomRange, cut at their waits.         *)
(***************************************************************************)
\* a registerNewRange that appends before it waits for the store
activeAtBlobbifyEarly(act, range) == Append(act, range)

\* registerNewRange up to its wait on setRange: activeRanges before the
\* store has answered
activeAtBlobbify(act, range) == act

\* registerNewRange after ASSERT(success): activeRanges.push_back(range)
activeAfterBlobbify(act, range) == Append(act, range)

\* registerNewRange, from its call to the wait on blobbifyRange: the
\* outcomes [nextKey, drawn, active, client]
registerBegin(nk, dr, act, inact) ==
    {LET range == PrefixRange(PrefixR(k.key))
     IN  [nextKey |-> k.nextKey, drawn |-> k.drawn,
          active |-> activeAtBlobbify(act, range), inactive |-> inact,
          client |-> Task("blobbify", range), issued |-> {}, failed |-> 0] :
        k \in newKey(nk, dr)}

\* an unregisterRandomRange that leaves the chosen range in activeRanges
activeAtUnregisterKept(act, idx) == act

\* unregisterRandomRange up to its first wait: activeRanges once the range
\* is chosen
activeAtUnregister(act, idx) == swapAndPop(act, idx)

\* an unregisterRandomRange that appends to inactiveRanges before the store
\* has answered
inactiveAtUnregisterEarly(inact, range) == Append(inact, range)

\* inactiveRanges at that wait: the range is not appended before
\* ASSERT(success)
inactiveAtUnregister(inact, range) == inact

\* unregisterRandomRange, from its call to its first wait (on
\* purgeBlobGranules or on unblobbifyRange). Called with activeRanges empty,
\* randomInt(0, 0) and activeRanges[randomRangeIdx] have no defined result:
\* the run ends there, or goes on with a range that was never in activeRanges.
unregisterBegin(nk, dr, act, inact) ==
    IF act = << >>
    THEN {[nextKey |-> nk, drawn |-> dr, active |-> act, inactive |-> inact,
           client |-> Task("none", NoRange), issued |-> {}, failed |-> 134]}
         \cup {[nextKey |-> nk, drawn |-> dr, active |-> act,
                inactive |-> inact,
                client |-> Task(IF forcePurge THEN "purge" ELSE "unblobbify",
                                range),
                issued |-> {range}, failed |-> 0] :
                  range \in {NoRange} \cup {inact[i] : i \in 1..Len(inact)},
                  forcePurge \in BOOLEAN}
    ELSE {[nextKey |-> nk, drawn |-> dr,
           active |-> activeAtUnregister(act, idx),
           inactive |-> inactiveAtUnregister(inact, act[idx]),
           client |-> Task(IF forcePurge THEN "purge" ELSE "unblobbify",
                           act[idx]),
           issued |-> {act[idx]}, failed |-> 0] :
             idx \in 1..Len(act), forcePurge \in BOOLEAN}

\* a driver that unregisters on the coin flip alone
clientLoopCoinOnly(nk, dr, act, inact) ==
    (IF KeysMade(nk, dr) < MaxKeys THEN registerBegin(nk, dr, act, inact)
     ELSE {})
    \cup unregisterBegin(nk, dr, act, inact)

\* one turn of blobGranuleRangesClient's loop, up to the operation's first
\* wait: register when activeRanges is empty or on a coin flip
clientLoop(nk, dr, act, inact) ==
    (IF KeysMade(nk, dr) < MaxKeys THEN registerBegin(nk, dr, act, inact)
     ELSE {})
    \cup (IF act # << >> THEN unregisterBegin(nk, dr, act, inact) ELSE {})

\* the store runs the blobbifyRange that registerNewRange waits for
RegisterBlobbify ==
    /\ failed = 0 /\ client.pc = "blobbify"
    /\ client' = [client EXCEPT !.pc = "registered",
                                !.success = blobbifyResult(blob, client.range)]
    /\ blob' = blobbifyState(blob, client.range)
    /\ hist' = IF blobbifyResult(blob, client.range)
               THEN [hist EXCEPT !.blobbified = @ \cup {client.range}]
               ELSE hist
    /\ UNCHANGED <<config, keygen, oracle, stopUnitClient, phase, unitClient,
                   checks, checkResult, gran, purge, failed>>

\* registerNewRange resumes: ASSERT(success), push_back, return. In _setup
\* the next registration follows, or setup is complete; in the driver the
\* wait on waitNextOp follows.
RegisterReturn ==
    /\ failed = 0 /\ client.pc = "registered"
    /\ IF ~client.success
       THEN /\ failed' = 123
            /\ UNCHANGED <<keygen, oracle, client, phase>>
       ELSE LET act == activeAfterBlobbify(activeRanges, client.range)
            IN  /\ failed' = failed
                /\ IF phase = "setup" /\ Len(act) < targetRanges
                   THEN \E o \in registerBegin(nextKey, drawn, act,
                                               inactiveRanges) :
                          /\ nextKey' = o.nextKey /\ drawn' = o.drawn
                          /\ activeRanges' = o.active /\ client' = o.client
                          /\ UNCHANGED <<phase, inactiveRanges>>
                   ELSE /\ activeRanges' = act
                        /\ client' = Task(IF phase = "setup" THEN "none"
                                          ELSE "waitNextOp", NoRange)
                        /\ phase' = IF phase = "setup" THEN "ready" ELSE phase
                        /\ UNCHANGED <<keygen, inactiveRanges>>
    /\ hist' = IF client.success
               THEN [hist EXCEPT !.registered = @ \cup {client.range}]
               ELSE hist
    /\ UNCHANGED <<config, stopUnitClient, unitClient, checks, checkResult,
                   store>>

\* the store takes the purge request and returns its key; the task goes on
\* to wait for the purge to complete
UnregisterPurge ==
    /\ failed = 0 /\ client.pc = "purge"
    /\ purge' = purge \cup {[range |-> client.range, force |-> TRUE]}
    /\ client' = [client EXCEPT !.pc = "waitPurge"]
    /\ UNCHANGED <<config, keygen, oracle, stopUnitClient, phase, unitClient,
                   checks, checkResult, blob, gran, failed, hist>>

\* waitPurgeGranulesComplete returns; setRange(range, false) is called
UnregisterPurged ==
    /\ failed = 0 /\ client.pc = "waitPurge"
    /\ [range |-> client.range, force |-> TRUE] \notin purge
    /\ client' = [client EXCEPT !.pc = "unblobbify", !.purged = TRUE]
    /\ UNCHANGED <<config, keygen, oracle, stopUnitClient, phase, unitClient,
                   checks, checkResult, store, failed, hist>>

\* the store runs the unblobbifyRange that unregisterRandomRange waits for
UnregisterUnblobbify ==
    /\ failed = 0 /\ client.pc = "unblobbify"
    /\ client' = [client EXCEPT !.pc = "unregistered",
                                !.success = unblobbifyResult(blob, client.range)]
    /\ blob' = IF unblobbifyResult(blob, client.range)
               THEN unblobbifyState(blob, client.range) ELSE blob
    /\ gran' = IF unblobbifyResult(blob, client.range)
               THEN unblobbifyState(gran, client.range) ELSE gran
    /\ hist' = IF unblobbifyResult(blob, client.range)
               THEN [hist EXCEPT !.unblobbified = @ \cup {client.range}]
               ELSE hist
    /\ UNCHANGED <<config, keygen, oracle, stopUnitClient, phase, unitClient,
                   checks, checkResult, purge, failed>>

\* an unregisterRandomRange that returns without the push_back
inactiveAfterUnblobbifyLost(inact, range) == inact

\* inactiveRanges.push_back(range), after ASSERT(success)
inactiveAfterUnblobbify(inact, range) == Append(inact, range)

\* unregisterRandomRange resumes: ASSERT(success), push_back to inactive
UnregisterReturn ==
    /\ failed = 0 /\ client.pc = "unregistered"
    /\ IF ~client.success
       THEN /\ failed' = 154
            /\ UNCHANGED <<inactiveRanges, client>>
       ELSE /\ failed' = failed
            /\ inactiveRanges' =
                  inactiveAfterUnblobbify(inactiveRanges, client.range)
            /\ client' = Task("waitNextOp", NoRange)
    /\ UNCHANGED <<config, keygen, activeRanges, stopUnitClient, phase,
                   unitClient, checks, checkResult, store, hist>>

\* waitNextOp fires: the next turn of the driver's loop
ClientNextOp ==
    /\ failed = 0 /\ client.pc = "waitNextOp"
    /\ \E o \in clientLoop(nextKey, drawn, activeRanges, inactiveRanges) :
          /\ nextKey' = o.nextKey /\ drawn' = o.drawn
          /\ activeRanges' = o.active /\ inactiveRanges' = o.inactive
          /\ client' = o.client
          /\ hist' = [hist EXCEPT !.issued = @ \cup o.issued]
          /\ failed' = o.failed
    /\ UNCHANGED <<config, stopUnitClient, phase, unitClient, checks,
                   checkResult, store>>

(***************************************************************************)
(* The store's own steps.                                                  *)
(***************************************************************************)
\* the blob manager completes a purge
StorePurge ==
    /\ failed = 0
    /\ \E p \in purge :
          /\ blob' = purgedSet(blob, p)
          /\ gran' = purgedSet(gran, p)
          /\ purge' = purge \ {p}
    /\ UNCHANGED <<config, keygen, oracle, stopUnitClient, phase, client,
                   unitClient, checks, checkResult, failed, hist>>

(***************************************************************************)
(* What the store answers to the reads of the checker and the scenarios:   *)
(* its contract when it is faithful, and otherwise any of a family of      *)
(* lists built around the range asked for.                                 *)
(***************************************************************************)
UnfaithfulLists(r) ==
    LET m  == withSuffix(r.begin, <<1>>)
        m2 == withSuffix(r.begin, <<2>>)
        left == KeyRangeRef(r.begin, m)
    IN  { << >>, <<r>>, <<left>>, <<KeyRangeRef(m, r.end)>>,
          <<left, KeyRangeRef(m, r.end)>>, <<left, KeyRangeRef(m2, r.end)>>,
          <<r, KeyRangeRef(r.end, withSuffix(r.end, <<1>>))>> }

verifyReplies(r) ==
    IF faithful THEN {verifyBlobRange(gran, r)} ELSE {1, invalidVersion}

listReplies(r) ==
    IF faithful THEN {listBlobbifiedRanges(blob, r)} ELSE UnfaithfulLists(r)

granuleReplies(r) ==
    IF faithful THEN {getBlobGranuleRanges(gran, r)} ELSE UnfaithfulLists(r)

(***************************************************************************)
(* checkRange.                                                             *)
(***************************************************************************)
\* isRangeActive: v != invalidVersion
isRangeActive(v) == v # invalidVersion

\* a checkRange that takes any non-empty list whose first range encloses
listAssertsAtLeastOne(range, blobRanges, isActive) ==
    IF isActive
    THEN /\ Len(blobRanges) >= 1
         /\ KeyLeq(blobRanges[1].begin, range.begin)
         /\ KeyLeq(range.end, blobRanges[1].end)
    ELSE blobRanges = << >>

\* the ASSERTs of checkRange on the reply of listBlobbifiedRanges
listAsserts(range, blobRanges, isActive) ==
    IF isActive
    THEN /\ Len(blobRanges) = 1
         /\ KeyLeq(blobRanges[1].begin, range.begin)
         /\ KeyLeq(range.end, blobRanges[1].end)
    ELSE blobRanges = << >>

\* the ASSERTs of checkRange on the reply of getBlobGranuleRanges
granuleAsserts(range, granules, isActive) ==
    IF isActive
    THEN /\ Len(granules) >= 1
         /\ KeyLeq(granules[1].begin, range.begin)
         /\ KeyLeq(range.end, granules[Len(granules)].end)
         /\ \A i \in 1..(Len(granules) - 1) :
               granules[i].end = granules[i + 1].begin
    ELSE granules = << >>

\* what the spec asks of the two replies for a range checked as active
EnclosedByOne(range, reply) ==
    Len(reply) = 1 /\ Within(range, reply[1])

CoveredByGranules(range, reply) == CoversContiguously(reply, range)

\* a checkRange task of _check, parked on its first isRangeActive
CheckTask(range) ==
    [range |-> range, pc |-> "verify", verified |-> FALSE,
     enclosed |-> FALSE, covered |-> FALSE]

\* checkRange's poll loop: left when isRangeActive returns isActive,
\* repeated after delay(1.0) otherwise
CheckVerify(i) ==
    /\ failed = 0 /\ phase = "checking" /\ checks[i].pc = "verify"
    /\ \E v \in verifyReplies(checks[i].range) :
          checks' = [checks EXCEPT ![i] =
                        IF isRangeActive(v) = TRUE
                        THEN [@ EXCEPT !.pc = "list", !.verified = TRUE]
                        ELSE @]
    /\ UNCHANGED <<config, keygen, oracle, stopUnitClient, phase, client,
                   unitClient, checkResult, store, failed, hist>>

\* listBlobbifiedRanges returns; its ASSERTs
CheckList(i) ==
    /\ failed = 0 /\ phase = "checking" /\ checks[i].pc = "list"
    /\ \E reply \in listReplies(checks[i].range) :
          IF listAsserts(checks[i].range, reply, TRUE)
          THEN /\ checks' = [checks EXCEPT ![i] =
                      [@ EXCEPT !.pc = "granules",
                                !.enclosed = EnclosedByOne(checks[i].range, reply)]]
               /\ failed' = failed
          ELSE /\ failed' = 222 /\ checks' = checks
    /\ UNCHANGED <<config, keygen, oracle, stopUnitClient, phase, client,
                   unitClient, checkResult, store, hist>>

\* getBlobGranuleRanges returns in the retry loop; its ASSERTs
CheckGranules(i) ==
    /\ failed = 0 /\ phase = "checking" /\ checks[i].pc = "granules"
    /\ \E reply \in granuleReplies(checks[i].range) :
          IF granuleAsserts(checks[i].range, reply, TRUE)
          THEN /\ checks' = [checks EXCEPT ![i] =
                      [@ EXCEPT !.pc = "done",
                                !.covered = CoveredByGranules(checks[i].range, reply)]]
               /\ failed' = failed
          ELSE /\ failed' = 234 /\ checks' = checks
    /\ UNCHANGED <<config, keygen, oracle, stopUnitClient, phase, client,
                   unitClient, checkResult, store, hist>>

\* a check that keeps the driver's future
cancelNot(task) == task

\* the driver task once its future is dropped
cancel(task) == Task("cancelled", NoRange)

\* check: the driver's future is replaced, the stop flag is set, and _check
\* starts one checkRange per range of activeRanges
Check ==
    /\ failed = 0 /\ phase = "running"
    /\ client' = cancel(client)
    /\ stopUnitClient' = TRUE
    /\ checks' = [i \in 1..Len(activeRanges) |-> CheckTask(activeRanges[i])]
    /\ phase' = "checking"
    /\ UNCHANGED <<config, keygen, oracle, unitClient, checkResult, store,
                   failed, hist>>

\* _check: waitForAll(checks), wait(unitClient), return true
CheckReturn ==
    /\ failed = 0 /\ phase = "checking"
    /\ \A i \in 1..Len(checks) : checks[i].pc = "done"
    /\ unitClient.pc = "returned"
    /\ checkResult' = "true"
    /\ phase' = "done"
    /\ UNCHANGED <<config, keygen, oracle, stopUnitClient, client, unitClient,
                   checks, store, failed, hist>>

(***************************************************************************)
(* The unit scenarios.  A scenario is the list of its adapter calls, each  *)
(* with what the scenario ASSERTs of the result and the line of that       *)
(* ASSERT; the runner executes one call per step.                          *)
(***************************************************************************)
VERIFY_RANGE_UNIT == 0
VERIFY_RANGE_GAP_UNIT == 1
RANGES_MISALIGNED == 2
BLOBBIFY_IDEMPOTENT == 3
RE_BLOBBIFY == 4
OP_COUNT == 5

Call(call, range, expect, line) ==
    [call |-> call, range |-> range, expect |-> expect, line |-> line]

\* setRange(range, true), setRange(range, false) and their ASSERT
Blobbify(range, expect, line) == Call("blobbify", range, expect, line)
Unblobbify(range, expect, line) == Call("unblobbify", range, expect, line)

\* isRangeActive and its ASSERT
IsActive(range, expect, line) == Call("isRangeActive", range, expect, line)

\* checkRange(range, isActive): the poll loop, the list, the granules
checkRange(range, isActive) ==
    << Call("poll", range, isActive, 204),
       Call("list", range, isActive, 222),
       Call("granules", range, isActive, 234) >>

\* purgeBlobGranules(range, 1, {}, force), then waitPurgeGranulesComplete
Purge(range, force, line) ==
    << Call("purge", range, force, line),
       Call("waitPurge", range, force, line + 1) >>

\* tearDownRangeAfterUnit
tearDownRangeAfterUnit(range) ==
    Purge(range, TRUE, 310) \o << Unblobbify(range, TRUE, 313) >>

\* the sub-range and the middle keys the scenarios derive from range.begin
unitActiveRange(range) ==
    KeyRangeRef(withSuffix(range.begin, <<65>>), withSuffix(range.begin, <<66>>))
\* a middle key with the suffix "BF", beyond the end of activeRange
unitMiddleKeyBeyond(range) == withSuffix(range.begin, <<66, 70>>)
unitMiddleKey(range) == withSuffix(range.begin, <<65, 70>>)
unitMiddleKey2(range) == withSuffix(range.begin, <<65, 71>>)

verifyRangeUnit(range) ==
    LET activeRange == unitActiveRange(range)
        middleKey == unitMiddleKey(range)
    IN  << Blobbify(activeRange, TRUE, 330) >>
        \o checkRange(activeRange, TRUE)
        \o << IsActive(KeyRangeRef(activeRange.begin, middleKey), TRUE, 334),
              IsActive(KeyRangeRef(middleKey, activeRange.end), TRUE, 337),
              IsActive(range, FALSE, 340),
              IsActive(KeyRangeRef(range.begin, activeRange.begin), FALSE, 343),
              IsActive(KeyRangeRef(activeRange.end, range.end), FALSE, 346),
              IsActive(KeyRangeRef(range.begin, middleKey), FALSE, 349),
              IsActive(KeyRangeRef(middleKey, range.end), FALSE, 352),
              IsActive(KeyRangeRef(range.begin, activeRange.end), FALSE, 355),
              IsActive(KeyRangeRef(activeRange.begin, range.end), FALSE, 358) >>
        \o tearDownRangeAfterUnit(activeRange)

\* format("%04x", i), i < 16^4
format04x(i) == [j \in 1..4 |-> HexDigit((i \div (16 ^ (4 - j))) % 16)]

\* boundaries with one suffixed key too many
gapBoundariesOneMore(range, rangeCount) ==
    << range.begin >>
    \o [i \in 1..rangeCount |-> withSuffix(range.begin, format04x(i - 1))]
    \o << range.end >>

\* boundaries of verifyRangeGapUnit, counted from 1
gapBoundaries(range, rangeCount) ==
    << range.begin >>
    \o [i \in 1..(rangeCount - 1) |-> withSuffix(range.begin, format04x(i - 1))]
    \o << range.end >>

RECURSIVE gapLoop(_, _, _, _)
gapLoop(boundaries, rangeCount, rangeToNotBlobbify, i) ==
    IF i >= rangeCount THEN << >>
    ELSE LET subRange == KeyRangeRef(boundaries[i + 1], boundaries[i + 2])
         IN  (IF i # rangeToNotBlobbify
              THEN << Blobbify(subRange, TRUE, 383) >> \o checkRange(subRange, TRUE)
              ELSE checkRange(subRange, FALSE))
             \o gapLoop(boundaries, rangeCount, rangeToNotBlobbify, i + 1)

verifyRangeGapUnit(range, rangeCount, rangeToNotBlobbify) ==
    LET boundaries == gapBoundaries(range, rangeCount)
    IN  gapLoop(boundaries, rangeCount, rangeToNotBlobbify, 0)
        \o << IsActive(range, FALSE, 391) >>
        \o (IF rangeToNotBlobbify # 0
            THEN tearDownRangeAfterUnit(
                     KeyRangeRef(boundaries[1], boundaries[rangeToNotBlobbify + 1]))
            ELSE << >>)
        \o (IF rangeToNotBlobbify # rangeCount - 1
            THEN tearDownRangeAfterUnit(
                     KeyRangeRef(boundaries[rangeToNotBlobbify + 2],
                                 boundaries[Len(boundaries)]))
            ELSE << >>)

\* rangesMisalignedUnit; both of its purges pass force = false
rangesMisalignedUnit(range) ==
    LET subRange == unitActiveRange(range)
    IN  << Blobbify(range, TRUE, 407),
           Call("listIs", range, range, 412),
           Call("granulesAre", range, range, 419) >>
        \o Purge(subRange, FALSE, 427)
        \o << IsActive(subRange, TRUE, 432),
              IsActive(range, TRUE, 435) >>
        \o Purge(subRange, FALSE, 437)
        \o << IsActive(subRange, FALSE, 442),
              IsActive(range, FALSE, 445),
              Call("granulesEmpty", range, FALSE, 453) >>

reBlobbifyUnit(range) ==
    << Blobbify(range, TRUE, 568) >>
    \o checkRange(range, TRUE)
    \o Purge(range, TRUE, 572)
    \o checkRange(range, FALSE)
    \o << Unblobbify(range, TRUE, 577) >>
    \o checkRange(range, FALSE)
    \o << Blobbify(range, TRUE, 581) >>
    \o checkRange(range, TRUE)
    \o tearDownRangeAfterUnit(range)

\* a retry of blobbifyIdempotentUnit on the first half of activeRange
idempotentRetryHalf(range) ==
    KeyRangeRef(unitActiveRange(range).begin, unitMiddleKey(range))

\* the range blobbifyIdempotentUnit blobbifies again
idempotentRetryRange(range) == unitActiveRange(range)

\* a list of ranges whose last one lies beside activeRange
overlappingRangesBeside(range) ==
    LET activeRange == unitActiveRange(range)
        middleKey == unitMiddleKey(range)
    IN  << range,
           KeyRangeRef(range.begin, activeRange.end),
           KeyRangeRef(activeRange.begin, range.end),
           KeyRangeRef(range.begin, middleKey),
           KeyRangeRef(middleKey, range.end),
           KeyRangeRef(activeRange.begin, middleKey),
           KeyRangeRef(middleKey, activeRange.end),
           KeyRangeRef(activeRange.end, range.end) >>

\* the eight ranges blobbifyIdempotentUnit blobbifies expecting false (fail1
\* to fail8)
overlappingRanges(range) ==
    LET activeRange == unitActiveRange(range)
        middleKey == unitMiddleKey(range)
        middleKey2 == unitMiddleKey2(range)
    IN  << range,
           KeyRangeRef(range.begin, activeRange.end),
           KeyRangeRef(activeRange.begin, range.end),
           KeyRangeRef(range.begin, middleKey),
           KeyRangeRef(middleKey, range.end),
           KeyRangeRef(activeRange.begin, middleKey),
           KeyRangeRef(middleKey, activeRange.end),
           KeyRangeRef(middleKey, middleKey2) >>

blobbifyIdempotentUnit(range, unblobbifyFirst) ==
    LET activeRange == unitActiveRange(range)
        middleKey == unitMiddleKey(range)
        middleKey2 == unitMiddleKey2(range)
    IN  (IF unblobbifyFirst THEN << Unblobbify(activeRange, TRUE, 476) >>
         ELSE << >>)
        \o << Blobbify(activeRange, TRUE, 480) >>
        \o checkRange(activeRange, TRUE)
        \o << Blobbify(idempotentRetryRange(range), TRUE, 485) >>
        \o checkRange(activeRange, TRUE)
        \o [i \in 1..8 |-> Blobbify(overlappingRanges(range)[i], FALSE,
                                    487 + 3 * i)]
        \o << Call("listIs", range, activeRange, 514),
              Call("granulesAre", range, activeRange, 521) >>
        \o Purge(range, TRUE, 530)
        \o << Unblobbify(range, FALSE, 534),
              Unblobbify(KeyRangeRef(range.begin, activeRange.end), FALSE, 537),
              Unblobbify(KeyRangeRef(activeRange.begin, range.end), FALSE, 540),
              Unblobbify(KeyRangeRef(activeRange.begin, middleKey), FALSE, 543),
              Unblobbify(KeyRangeRef(middleKey, activeRange.end), FALSE, 546),
              Unblobbify(KeyRangeRef(activeRange.begin, middleKey), FALSE, 549),
              Unblobbify(KeyRangeRef(middleKey, activeRange.end), FALSE, 552),
              Unblobbify(KeyRangeRef(middleKey, middleKey2), FALSE, 555),
              Blobbify(activeRange, TRUE, 558),
              Blobbify(activeRange, TRUE, 561) >>

\* the calls of the scenario the runner is in
Script(u) ==
    IF u.op = VERIFY_RANGE_UNIT THEN verifyRangeUnit(u.range)
    ELSE IF u.op = VERIFY_RANGE_GAP_UNIT
    THEN verifyRangeGapUnit(u.range, u.rangeCount, u.rangeToNotBlobbify)
    ELSE IF u.op = RANGES_MISALIGNED THEN rangesMisalignedUnit(u.range)
    ELSE IF u.op = BLOBBIFY_IDEMPOTENT
    THEN blobbifyIdempotentUnit(u.range, u.unblobbifyFirst)
    ELSE reBlobbifyUnit(u.range)

(***************************************************************************)
(* blobGranuleRangesUnitTests.                                             *)
(***************************************************************************)
\* loopTries is the local variable of the pick loop; the model keeps it
\* while the runner is in that loop. errorsLeft is the number of transient
\* errors the transaction reads of the scenario will still be given, onError
\* tells that the scenario waits for tr.onError(e).
UnitTask(pc) ==
    [pc |-> pc, op |-> OP_COUNT, range |-> NoRange, step |-> 0,
     rangeCount |-> 0, rangeToNotBlobbify |-> 0, unblobbifyFirst |-> FALSE,
     loopTries |-> 0, errorsLeft |-> 0, onError |-> FALSE]

\* int loopTries = 1000
LoopTries == 1000

\* the scenarios the pick loop excludes, when only OP_COUNT is excluded
excludedTypesNone == {OP_COUNT}

\* excludedTypes of blobGranuleRangesUnitTests
excludedTypes == {OP_COUNT, RANGES_MISALIGNED, RE_BLOBBIFY}

\* one iteration of the pick loop on the op drawn by randomInt(0, OP_COUNT):
\* break, or loopTries-- and ASSERT(loopTries >= 0)
pickIteration(op, loopTries) ==
    IF op \notin excludedTypes
    THEN [pc |-> "dispatch", op |-> op, loopTries |-> loopTries, failed |-> 0]
    ELSE IF loopTries - 1 >= 0
    THEN [pc |-> "pick", op |-> op, loopTries |-> loopTries - 1, failed |-> 0]
    ELSE [pc |-> "pick", op |-> op, loopTries |-> loopTries - 1,
          failed |-> 621]

\* the ways the pick loop ends: the ways its first iteration ends and, if an
\* iteration can go round, the ways the one with no retry left ends
pickLoop ==
    LET ops == 0..(OP_COUNT - 1)
        tries == IF \E op \in ops : pickIteration(op, LoopTries).pc = "pick"
                 THEN {LoopTries, 0} ELSE {LoopTries}
        ends == {pickIteration(op, t) : op \in ops, t \in tries}
    IN  {e \in ends : e.pc = "dispatch" \/ e.failed # 0}

\* the scenarios the pick loop can leave with, and their random choices.
\* rangeCount is randomExp(3, 6) + 1 in the source; the model draws it from
\* 2..MaxRangeCount, and rangeToNotBlobbify from randomInt(0, rangeCount).
unitPicks ==
    {[op |-> VERIFY_RANGE_UNIT, rangeCount |-> 0, rangeToNotBlobbify |-> 0,
      unblobbifyFirst |-> FALSE]}
    \cup {[op |-> VERIFY_RANGE_GAP_UNIT, rangeCount |-> n,
           rangeToNotBlobbify |-> g, unblobbifyFirst |-> FALSE] :
             n \in 2..MaxRangeCount, g \in 0..(MaxRangeCount - 1)}
    \cup {[op |-> BLOBBIFY_IDEMPOTENT, rangeCount |-> 0,
           rangeToNotBlobbify |-> 0, unblobbifyFirst |-> c] : c \in BOOLEAN}

\* the five scenarios and their random choices: rangeCount, the sub-range
\* not to blobbify (randomInt(0, rangeCount)), the coin of line 474
scenarioPicks ==
    {[op |-> op, rangeCount |-> 0, rangeToNotBlobbify |-> 0,
      unblobbifyFirst |-> FALSE] :
        op \in {VERIFY_RANGE_UNIT, RANGES_MISALIGNED, RE_BLOBBIFY}}
    \cup {[op |-> VERIFY_RANGE_GAP_UNIT, rangeCount |-> n,
           rangeToNotBlobbify |-> g, unblobbifyFirst |-> FALSE] :
             n \in 2..MaxGapCount, g \in 0..(MaxGapCount - 1)}
    \cup {[op |-> BLOBBIFY_IDEMPOTENT, rangeCount |-> 0,
           rangeToNotBlobbify |-> 0, unblobbifyFirst |-> c] : c \in BOOLEAN}

\* a runner that does not read the stop flag
unitLoopNoStop(nk, dr, stop) ==
    IF KeysMade(nk, dr) >= MaxKeys THEN {}
    ELSE {[nextKey |-> k.nextKey, drawn |-> k.drawn, failed |-> 0,
           unit |-> [pc |-> "scenario", op |-> VERIFY_RANGE_UNIT,
                     range |-> PrefixRange(PrefixU(k.key)), step |-> 1,
                     rangeCount |-> 0, rangeToNotBlobbify |-> 0,
                     unblobbifyFirst |-> FALSE, loopTries |-> 0,
                     errorsLeft |-> 0, onError |-> FALSE]] :
            k \in newKey(nk, dr)}

\* the runner at the first call of the scenario it dispatches
dispatch(range, pick) ==
    [pc |-> "scenario", op |-> pick.op, range |-> range, step |-> 1,
     rangeCount |-> pick.rangeCount,
     rangeToNotBlobbify |-> pick.rangeToNotBlobbify,
     unblobbifyFirst |-> pick.unblobbifyFirst, loopTries |-> 0,
     errorsLeft |-> 0, onError |-> FALSE]

\* one turn of the runner's loop, from its top to the scenario's first wait
\* or to the ASSERT of the pick loop: the outcomes [nextKey, drawn, unit,
\* failed]
unitLoop(nk, dr, stop) ==
    IF stop
    THEN {[nextKey |-> nk, drawn |-> dr, unit |-> UnitTask("returned"),
           failed |-> 0]}
    ELSE IF KeysMade(nk, dr) >= MaxKeys THEN {}
    ELSE {[nextKey |-> k.nextKey, drawn |-> k.drawn, failed |-> 0,
           unit |-> dispatch(PrefixRange(PrefixU(k.key)), pick)] :
            k \in newKey(nk, dr),
            pick \in {q \in unitPicks :
                        /\ q.op \in {e.op : e \in {x \in pickLoop :
                                                     x.pc = "dispatch"}}
                        /\ q.rangeToNotBlobbify < q.rangeCount
                              \/ q.rangeCount = 0}}
         \cup {[nextKey |-> k.nextKey, drawn |-> k.drawn, failed |-> e.failed,
                unit |-> [UnitTask("pick") EXCEPT
                            !.range = PrefixRange(PrefixU(k.key)),
                            !.op = e.op, !.loopTries = e.loopTries]] :
                 k \in newKey(nk, dr), e \in {x \in pickLoop : x.failed # 0}}

\* the outcomes of the store running call c and the scenario's ASSERT on the
\* result: [res, blob, gran, purge], res one of "pass", "fail", "again", and
\* "error" when the call throws
Outcome(res, B, G, P) == [res |-> res, blob |-> B, gran |-> G, purge |-> P]
Verdict(ok) == IF ok THEN "pass" ELSE "fail"

\* the reads made through a Transaction, inside loop { try ... catch }
TransactionReads == {"granules", "granulesAre", "granulesEmpty"}

\* tr.getBlobGranuleRanges throws a transient error
thrown(c) ==
    IF c.call \in TransactionReads /\ unitClient.errorsLeft > 0
    THEN {Outcome("error", blob, gran, purge)} ELSE {}

\* a catch that leaves the loop as though the read had returned
catchBreaks(u) ==
    [u EXCEPT !.errorsLeft = @ - 1, !.step = @ + 1]

\* catch (Error& e) { wait(tr.onError(e)); }: the scenario waits for onError
\* at the same call
catch(u) ==
    [u EXCEPT !.errorsLeft = @ - 1, !.onError = TRUE]

\* onError has returned: the loop goes round and the read is issued again
loopAgain(u) == [u EXCEPT !.onError = FALSE]

unitCall(c) ==
    thrown(c) \cup
    CASE c.call = "blobbify" ->
           {Outcome(Verdict(blobbifyResult(blob, c.range) = c.expect),
                    blobbifyState(blob, c.range), gran, purge)}
      [] c.call = "unblobbify" ->
           LET ok == unblobbifyResult(blob, c.range)
           IN  {Outcome(Verdict(ok = c.expect),
                        IF ok THEN unblobbifyState(blob, c.range) ELSE blob,
                        IF ok THEN unblobbifyState(gran, c.range) ELSE gran,
                        purge)}
      [] c.call = "isRangeActive" ->
           {Outcome(Verdict(isRangeActive(v) = c.expect), blob, gran, purge) :
               v \in verifyReplies(c.range)}
      [] c.call = "poll" ->
           {Outcome(IF isRangeActive(v) = c.expect THEN "pass" ELSE "again",
                    blob, gran, purge) : v \in verifyReplies(c.range)}
      [] c.call = "list" ->
           {Outcome(Verdict(listAsserts(c.range, reply, c.expect)),
                    blob, gran, purge) : reply \in listReplies(c.range)}
      [] c.call = "granules" ->
           {Outcome(Verdict(granuleAsserts(c.range, reply, c.expect)),
                    blob, gran, purge) : reply \in granuleReplies(c.range)}
      [] c.call = "listIs" ->
           {Outcome(Verdict(Len(reply) = 1 /\ reply[1] = c.expect),
                    blob, gran, purge) : reply \in listReplies(c.range)}
      [] c.call = "granulesAre" ->
           {Outcome(Verdict(Len(reply) = 1 /\ reply[1] = c.expect),
                    blob, gran, purge) : reply \in granuleReplies(c.range)}
      [] c.call = "granulesEmpty" ->
           {Outcome(Verdict(reply = << >>), blob, gran, purge) :
               reply \in granuleReplies(c.range)}
      [] c.call = "purge" ->
           {Outcome("pass", blob, gran,
                    purge \cup {[range |-> c.range, force |-> c.expect]})}
      [] c.call = "waitPurge" ->
           IF [range |-> c.range, force |-> c.expect] \in purge THEN {}
           ELSE {Outcome("pass", blob, gran, purge)}

\* the scenario's next call returns: its ASSERT, then the next call, or the
\* scenario's return and the runner's delay(1.0)
UnitStep ==
    /\ failed = 0 /\ unitClient.pc = "scenario"
    /\ IF unitClient.onError
       THEN /\ unitClient' = loopAgain(unitClient)
            /\ UNCHANGED <<store, failed>>
       ELSE LET script == Script(unitClient)
                c == script[unitClient.step]
            IN  \E o \in unitCall(c) :
                   /\ blob' = o.blob /\ gran' = o.gran /\ purge' = o.purge
                   /\ failed' = IF o.res = "fail" THEN c.line ELSE failed
                   /\ unitClient' =
                         IF o.res = "error" THEN catch(unitClient)
                         ELSE IF o.res # "pass" THEN unitClient
                         ELSE IF unitClient.step = Len(script)
                         THEN UnitTask("delay")
                         ELSE [unitClient EXCEPT !.step = @ + 1]
    /\ UNCHANGED <<config, keygen, oracle, stopUnitClient, phase, client,
                   checks, checkResult, hist>>

\* delay(1.0) is over: the top of the runner's loop
UnitLoop ==
    /\ failed = 0 /\ unitClient.pc = "delay"
    /\ \E o \in unitLoop(nextKey, drawn, stopUnitClient) :
          /\ nextKey' = o.nextKey /\ drawn' = o.drawn /\ unitClient' = o.unit
          /\ failed' = o.failed
    /\ UNCHANGED <<config, oracle, stopUnitClient, phase, client, checks,
                   checkResult, store, hist>>

(***************************************************************************)
(* The blob manager assigns granules on its own time.  Nothing tells when  *)
(* but a read of the granules, so the model lets it assign the granule of  *)
(* a blobbified range while a verifyBlobRange or a getBlobGranuleRanges on *)
(* that range is waited for.                                               *)
(***************************************************************************)
GranuleReads ==
    {"poll", "isRangeActive", "granules", "granulesAre", "granulesEmpty"}

Awaited ==
    (IF unitClient.pc = "scenario"
        /\ Script(unitClient)[unitClient.step].call \in GranuleReads
     THEN {Script(unitClient)[unitClient.step].range} ELSE {})
    \cup {checks[i].range : i \in {j \in 1..Len(checks) :
                                     checks[j].pc \in {"verify", "granules"}}}

StoreAssignGranule ==
    /\ failed = 0
    /\ \E r \in blob \ gran :
          /\ \E a \in Awaited : Intersects(r, a)
          /\ gran' = gran \cup {r}
    /\ UNCHANGED <<config, keygen, oracle, stopUnitClient, phase, client,
                   unitClient, checks, checkResult, blob, purge, failed, hist>>

(***************************************************************************)
(* setup and start.                                                        *)
(***************************************************************************)
\* _setup: changeConfig returns, the first registerNewRange is called
Setup ==
    /\ failed = 0 /\ phase = "setup" /\ client.pc = "none"
    /\ \E o \in registerBegin(nextKey, drawn, activeRanges, inactiveRanges) :
          /\ nextKey' = o.nextKey /\ drawn' = o.drawn
          /\ activeRanges' = o.active /\ client' = o.client
    /\ UNCHANGED <<config, inactiveRanges, stopUnitClient, phase, unitClient,
                   checks, checkResult, store, failed, hist>>

\* a start that runs the unit tests on every client
runsUnitTestsAll(id) == TRUE

\* start: if (clientId == 0) unitClient = blobGranuleRangesUnitTests(...)
runsUnitTests(id) == id = 0

\* start: the driver runs to its first wait, then (on client 0) the unit
\* runner to its first wait; other clients hold a completed unitClient
Start ==
    /\ failed = 0 /\ phase = "ready"
    /\ \E o \in clientLoop(nextKey, drawn, activeRanges, inactiveRanges) :
          /\ activeRanges' = o.active /\ inactiveRanges' = o.inactive
          /\ client' = o.client
          /\ hist' = [hist EXCEPT !.issued = @ \cup o.issued]
          /\ IF o.failed # 0
             THEN /\ nextKey' = o.nextKey /\ drawn' = o.drawn
                  /\ unitClient' = unitClient /\ failed' = o.failed
             ELSE IF runsUnitTests(clientId)
             THEN \E u \in unitLoop(o.nextKey, o.drawn, stopUnitClient) :
                    /\ nextKey' = u.nextKey /\ drawn' = u.drawn
                    /\ unitClient' = u.unit /\ failed' = u.failed
             ELSE /\ nextKey' = o.nextKey /\ drawn' = o.drawn
                  /\ unitClient' = UnitTask("returned") /\ failed' = 0
    /\ phase' = "running"
    /\ UNCHANGED <<config, stopUnitClient, checks, checkResult, store>>

(***************************************************************************)
(* The key generators of several clients: what newKey and registerNewRange *)
(* make of nextKey, client by client.                                      *)
(***************************************************************************)
PeerIds == {0, 1}

\* client c after made calls of newKey
Peer(c, made) ==
    [nextKey |-> firstKey(c) + sequentialGap * made, made |-> made, run |-> 0,
     ranges |-> {}]

\* the numbers of keys a client has generated when the run begins: none, or
\* nearly as many as separate its first key from the next client's
StartCounts(gap) ==
    {0} \cup {ClientStride \div gap - n : n \in 1..(MaxGenerations - 1)}

peerOthers == <<clientId, sequential, sequentialGap, targetRanges, faithful,
                keygen, oracle, stopUnitClient, phase, client, unitClient,
                checks, checkResult, store, failed, hist>>

\* registerNewRange of client c: "R_" + newKey(), the range of that prefix
PeerRegister(c) ==
    /\ peers[c].run < MaxGenerations
    /\ \E k \in newKey(peers[c].nextKey, {}) :
          peers' = [peers EXCEPT ![c] =
                      [nextKey |-> k.nextKey, made |-> @.made + 1,
                       run |-> @.run + 1,
                       ranges |-> @.ranges \cup {PrefixRange(PrefixR(k.key))}]]
    /\ UNCHANGED peerOthers

\* the unit runner of client 0 takes a key for its "U_" range
PeerUnit ==
    /\ peers[0].run < MaxGenerations
    /\ \E k \in newKey(peers[0].nextKey, {}) :
          peers' = [peers EXCEPT ![0] =
                      [@ EXCEPT !.nextKey = k.nextKey, !.made = @ + 1,
                                !.run = @ + 1]]
    /\ UNCHANGED peerOthers

\* the workload after its constructor, setup not yet called
Constructed ==
    /\ nextKey = firstKey(clientId)
    /\ drawn = {}
    /\ activeRanges = << >>
    /\ inactiveRanges = << >>
    /\ stopUnitClient = FALSE
    /\ phase = "setup"
    /\ client = Task("none", NoRange)
    /\ unitClient = UnitTask("none")
    /\ checks = << >>
    /\ checkResult = "none"
    /\ blob = {} /\ gran = {} /\ purge = {}
    /\ failed = 0
    /\ hist = [blobbified |-> {}, registered |-> {}, issued |-> {},
               unblobbified |-> {}]

\* sequential = rand % 2, sequentialGap = 1 + rand % 2, targetRanges >= 1.
\* sequentialGap is read in sequential mode only.
Configured ==
    /\ clientId \in {0, 1}
    /\ sequential \in BOOLEAN
    /\ sequentialGap \in (IF sequential THEN {1, 2} ELSE {1})
    /\ targetRanges \in 1..(MaxKeys - 2)

Init ==
    /\ Configured
    /\ faithful = TRUE
    /\ Constructed
    /\ peers = [c \in PeerIds |-> Peer(c, 0)]

Next ==
    \/ Setup
    \/ RegisterBlobbify
    \/ RegisterReturn
    \/ Start
    \/ ClientNextOp
    \/ UnregisterPurge
    \/ UnregisterPurged
    \/ UnregisterUnblobbify
    \/ UnregisterReturn
    \/ UnitStep
    \/ UnitLoop
    \/ Check
    \/ \E i \in 1..Len(checks) : CheckVerify(i)
    \/ \E i \in 1..Len(checks) : CheckList(i)
    \/ \E i \in 1..Len(checks) : CheckGranules(i)
    \/ CheckReturn
    \/ StoreAssignGranule
    \/ StorePurge

Spec == Init /\ [][Next]_vars

(***************************************************************************)
(* The same client against a store whose reads may answer anything.        *)
(***************************************************************************)
UnfaithfulInit ==
    /\ Configured
    /\ faithful = FALSE
    /\ Constructed
    /\ peers = [c \in PeerIds |-> Peer(c, 0)]

UnfaithfulSpec == UnfaithfulInit /\ [][Next]_vars

(***************************************************************************)
(* The key generators of the clients of one test run, in sequential mode:  *)
(* each client has generated some number of keys before the run begins.    *)
(***************************************************************************)
KeyInit ==
    /\ clientId = 0
    /\ sequential = TRUE
    /\ sequentialGap \in {1, 2}
    /\ targetRanges = 1
    /\ faithful = TRUE
    /\ Constructed
    /\ \E n \in [PeerIds -> StartCounts(sequentialGap)] :
          peers = [c \in PeerIds |-> Peer(c, n[c])]

KeyNext ==
    \/ \E c \in PeerIds : PeerRegister(c)
    \/ PeerUnit

KeySpec == KeyInit /\ [][KeyNext]_vars

(***************************************************************************)
(* One scenario on its own: any of the five unit tests, called on a fresh  *)
(* "U_" range of client 0 against the store, with the random choices the   *)
(* scenario makes.                                                         *)
(***************************************************************************)
\* client 0 with nothing registered and an empty store
RunnerAlone ==
    /\ clientId = 0
    /\ sequential \in BOOLEAN
    /\ sequentialGap = 1
    /\ targetRanges = 1
    /\ faithful = TRUE
    /\ peers = [c \in PeerIds |-> Peer(c, 0)]
    /\ activeRanges = << >> /\ inactiveRanges = << >>
    /\ stopUnitClient = FALSE
    /\ phase = "running"
    /\ client = Task("none", NoRange)
    /\ checks = << >> /\ checkResult = "none"
    /\ blob = {} /\ gran = {} /\ purge = {}
    /\ failed = 0
    /\ hist = [blobbified |-> {}, registered |-> {}, issued |-> {},
               unblobbified |-> {}]

ScenarioInit ==
    /\ RunnerAlone
    /\ \E k \in newKey(firstKey(clientId), {}) :
          \E pick \in {q \in scenarioPicks :
                         q.rangeToNotBlobbify < q.rangeCount \/ q.rangeCount = 0} :
             /\ nextKey = k.nextKey /\ drawn = k.drawn
             /\ \E n \in 0..MaxErrors :
                   unitClient = [dispatch(PrefixRange(PrefixU(k.key)), pick)
                                    EXCEPT !.errorsLeft = n]

ScenarioNext ==
    \/ UnitStep
    \/ StoreAssignGranule
    \/ StorePurge

ScenarioSpec == ScenarioInit /\ [][ScenarioNext]_vars

(***************************************************************************)
(* The pick loop of the unit runner, one iteration a step: from loopTries  *)
(* = 1000 to the dispatch of a scenario or to the ASSERT of line 621.      *)
(***************************************************************************)
PickInit ==
    /\ RunnerAlone
    /\ \E k \in newKey(firstKey(clientId), {}) :
          /\ nextKey = k.nextKey /\ drawn = k.drawn
          /\ unitClient = [UnitTask("pick") EXCEPT
                             !.range = PrefixRange(PrefixU(k.key)),
                             !.loopTries = LoopTries]

\* op = randomInt(0, OP_COUNT) and the rest of the iteration
PickDraw ==
    /\ failed = 0 /\ unitClient.pc = "pick"
    /\ \E op \in 0..(OP_COUNT - 1) :
          LET e == pickIteration(op, unitClient.loopTries)
          IN  /\ failed' = e.failed
              /\ IF e.pc = "dispatch"
                 THEN \E pick \in {q \in scenarioPicks :
                                      /\ q.op = e.op
                                      /\ q.rangeToNotBlobbify < q.rangeCount
                                            \/ q.rangeCount = 0} :
                         unitClient' = dispatch(unitClient.range, pick)
                 ELSE unitClient' = [unitClient EXCEPT
                                       !.op = e.op, !.loopTries = e.loopTries]
    /\ UNCHANGED <<config, keygen, oracle, stopUnitClient, phase, client,
                   checks, checkResult, store, hist>>

PickNext == PickDraw

PickSpec == PickInit /\ [][PickNext]_vars

(***************************************************************************)
(* Properties.                                                             *)
(***************************************************************************)
RangesOf(vec) == {vec[i] : i \in 1..Len(vec)}

\* the first call of a scenario that carries the given source line
LineStep(script, line) ==
    CHOOSE i \in 1..Len(script) :
        /\ script[i].line = line
        /\ \A j \in 1..(i - 1) : script[j].line # line

\* C1: every range of activeRanges is one for which blobbifyRange has already
\* returned true to registerNewRange, and the store holds it as blobbified,
\* in every state of every interleaving of driver, unit runner and checker.
C1_ActiveAfterBlobbify ==
    \A r \in RangesOf(activeRanges) : r \in hist.blobbified /\ r \in blob

\* the window of C1: the store has answered true, the task has not resumed,
\* the range is blobbified and not yet in activeRanges
C1_Witness ==
    /\ phase = "running" /\ client.pc = "registered" /\ client.success
    /\ client.range \in blob /\ client.range \notin RangesOf(activeRanges)
    /\ Len(activeRanges) >= 1

\* C2: no range of activeRanges has a purge or an unblobbify of the driver
\* issued on it, pending or completed; and every range of inactiveRanges is
\* one for which unblobbifyRange has returned true.
C2_RemovedBeforeCall ==
    /\ \A r \in RangesOf(activeRanges) : r \notin hist.issued
    /\ \A r \in RangesOf(inactiveRanges) : r \in hist.unblobbified
    /\ client.pc \in {"purge", "waitPurge", "unblobbify", "unregistered"}
          => /\ client.range \in hist.issued
             /\ client.range \notin RangesOf(activeRanges)
             /\ client.range \notin RangesOf(inactiveRanges)

\* an unregister waits for its purge, with ranges in both vectors
C2_Witness ==
    /\ client.pc = "waitPurge" /\ client.range \in hist.issued
    /\ Len(activeRanges) >= 1 /\ Len(inactiveRanges) >= 1

\* C3: the ranges of activeRanges are pairwise disjoint, none occurs twice,
\* and none overlaps a range of inactiveRanges.
C3_OracleDisjoint ==
    /\ \A i, j \in 1..Len(activeRanges) :
          i # j => /\ activeRanges[i] # activeRanges[j]
                   /\ ~Intersects(activeRanges[i], activeRanges[j])
    /\ \A r \in RangesOf(activeRanges) :
          \A q \in RangesOf(inactiveRanges) : ~Intersects(r, q)

\* registers and an unregister have completed on client 0, and the unit
\* runner has taken a key in between
C3_Witness ==
    /\ clientId = 0 /\ client.pc = "waitNextOp"
    /\ Len(activeRanges) >= 1 /\ Len(inactiveRanges) >= 1
    /\ KeysMade(nextKey, drawn) > Cardinality(hist.blobbified)

\* no range registered by one client overlaps a range registered by another
PeersDisjoint ==
    \A c, d \in PeerIds :
        c # d => \A r \in peers[c].ranges :
                    \A q \in peers[d].ranges : ~Intersects(r, q)

\* C4 as stated: in sequential mode, whatever number of keys each client has
\* generated, no range registered by one client overlaps a range registered
\* by another.
C4_AsStated == sequential => PeersDisjoint

\* C4 amended: the same, as long as no client has generated more than
\* 10,000,000 / sequentialGap keys.
C4_DisjointWithinStride ==
    (\A c \in PeerIds : peers[c].made <= ClientStride \div sequentialGap)
        => PeersDisjoint

\* client 0 has generated exactly 10,000,000 / sequentialGap keys, and both
\* clients have registered ranges
C4_Witness ==
    /\ peers[0].made = ClientStride \div sequentialGap
    /\ peers[0].ranges # {} /\ peers[1].ranges # {}

\* C5: check returns true only if, for every range that was in activeRanges
\* when check was called, verifyBlobRange returned a version, the list of
\* blobbified ranges was one range enclosing it, and the granules covered it
\* without a gap; a violation ends the workload by an ASSERT, and check never
\* returns false.
C5_TrueOnlyIfChecked ==
    /\ checkResult \in {"none", "true"}
    /\ failed \in {222, 234} => checkResult = "none"
    /\ checkResult = "true" =>
          /\ Len(checks) = Len(activeRanges)
          /\ \A i \in 1..Len(checks) :
                /\ checks[i].range = activeRanges[i]
                /\ checks[i].verified /\ checks[i].enclosed /\ checks[i].covered

\* check has returned true on ranges it checked against the unfaithful store
C5_Witness ==
    /\ ~faithful /\ checkResult = "true" /\ Len(activeRanges) >= 1
    /\ \A i \in 1..Len(checks) : checks[i].pc = "done"

\* a step taken once check has been called leaves the driver and the oracle
DriverStaysCancelled ==
    phase \in {"checking", "done"} =>
        /\ client.pc = "cancelled" /\ client' = client
        /\ activeRanges' = activeRanges /\ inactiveRanges' = inactiveRanges
        /\ hist' = hist

\* C6: from the call of check on, the driver task is cancelled: it changes
\* neither activeRanges nor inactiveRanges and issues no adapter call.
C6_DriverCancelled == [][DriverStaysCancelled]_vars

\* a range check has completed after check cancelled the driver in the
\* middle of an operation: a range of the driver is blobbified and in
\* neither vector
C6_Witness ==
    /\ phase = "checking" /\ client.pc = "cancelled"
    /\ \E i \in 1..Len(checks) : checks[i].pc = "done"
    /\ \E r \in blob : /\ r.begin[1] = 82
                       /\ r \notin RangesOf(activeRanges)
                       /\ r \notin RangesOf(inactiveRanges)

\* what a step may do to the unit runner
RunnerStep ==
    /\ (stopUnitClient /\ unitClient.pc # "scenario")
          => unitClient'.pc # "scenario"
    /\ (unitClient.pc = "scenario" /\ unitClient' # unitClient)
          => \/ /\ unitClient.step < Len(Script(unitClient))
                /\ unitClient' = [unitClient EXCEPT !.step = @ + 1]
             \/ /\ unitClient.step = Len(Script(unitClient))
                /\ unitClient' = UnitTask("delay")
    /\ (unitClient.pc # "returned" /\ unitClient'.pc = "returned")
          => \/ unitClient.pc = "delay" /\ stopUnitClient
             \/ unitClient.pc = "none" /\ clientId # 0
    /\ checkResult' = "true" => unitClient'.pc = "returned"

C8_CheckCompletes == phase = "checking" => failed = 0

\* C9: the unblobbifyRange of every unregister returns true, with and without
\* a completed force purge before it, and no range of inactiveRanges is
\* blobbified in the store.
C9_UnregisterSucceeds ==
    /\ client.pc = "unregistered" => client.success
    /\ failed # 154
    /\ \A r \in RangesOf(inactiveRanges) :
          listBlobbifiedRanges(blob, r) = << >>

\* an unblobbifyRange has returned true after the force purge of its range
\* completed, and an earlier unregister is in inactiveRanges
C9_Witness ==
    /\ client.pc = "unregistered" /\ client.purged /\ client.success
    /\ Len(inactiveRanges) >= 1

\* C10: in blobbifyIdempotentUnit both setRange(activeRange, true) return
\* true, and from the first one to the purge the blobbified ranges and (once
\* verified) the granules that intersect the outer range are the one range
\* activeRange.
C10_ExactMatchIdempotent ==
    (unitClient.pc = "scenario" /\ unitClient.op = BLOBBIFY_IDEMPOTENT) =>
        LET script == Script(unitClient)
            first == LineStep(script, 480)
            last == LineStep(script, 530)
        IN  /\ failed \notin {480, 485, 514, 521}
            /\ (unitClient.step > first /\ unitClient.step <= last) =>
                  listBlobbifiedRanges(blob, unitClient.range)
                      = << unitActiveRange(unitClient.range) >>
            /\ (unitClient.step > first + 1 /\ unitClient.step <= last) =>
                  getBlobGranuleRanges(gran, unitClient.range)
                      = << unitActiveRange(unitClient.range) >>

\* the scenario began with the no-op unblobbify and has reached its purge
C10_Witness ==
    /\ unitClient.pc = "scenario" /\ unitClient.op = BLOBBIFY_IDEMPOTENT
    /\ unitClient.unblobbifyFirst /\ failed = 0
    /\ unitClient.step = LineStep(Script(unitClient), 530)

\* a step of blobbifyIdempotentUnit at one of its eight calls fail1..fail8
RejectionStep ==
    (/\ unitClient.pc = "scenario" /\ unitClient.op = BLOBBIFY_IDEMPOTENT
     /\ failed = 0
     /\ unitClient.step - LineStep(Script(unitClient), 490) \in 0..7) =>
        LET c == Script(unitClient)[unitClient.step]
            activeRange == unitActiveRange(unitClient.range)
        IN  /\ failed' \notin {490, 493, 496, 499, 502, 505, 508, 511}
            /\ unitClient' # unitClient =>
                  /\ c.call = "blobbify" /\ c.range # activeRange
                  /\ Intersects(c.range, activeRange)
                  /\ blob' = blob /\ gran' = gran
                  /\ Overlapping(blob', unitClient.range) = {activeRange}

\* C11: while activeRange is blobbified, each of the eight blobbify calls of
\* blobbifyIdempotentUnit on a range that overlaps activeRange without being
\* equal to it returns false and leaves the store as it was: the blobbified
\* ranges that intersect the outer range are still activeRange alone.
C11_RejectionKeepsStore == [][RejectionStep]_vars

\* all eight calls have returned false; the list of the outer range is next
C11_Witness ==
    /\ unitClient.pc = "scenario" /\ unitClient.op = BLOBBIFY_IDEMPOTENT
    /\ failed = 0
    /\ unitClient.step = LineStep(Script(unitClient), 514)
    /\ Script(unitClient)[unitClient.step - 1].line = 511
    /\ Overlapping(blob, unitClient.range)
          = {unitActiveRange(unitClient.range)}

\* C12: in verifyRangeUnit, once activeRange is blobbified and verified, a
\* probed range is reported active exactly when it lies within activeRange:
\* the nine probes are well-formed ranges within the outer range, the two
\* slices of activeRange are the ones expected and found active, the seven
\* that reach outside it are expected and found not active.
C12_ActiveIffWithin ==
    (unitClient.pc = "scenario" /\ unitClient.op = VERIFY_RANGE_UNIT) =>
        LET script == Script(unitClient)
            activeRange == unitActiveRange(unitClient.range)
            probes == LineStep(script, 334)..LineStep(script, 358)
        IN  /\ failed \notin {334, 337, 340, 343, 346, 349, 352, 355, 358}
            /\ Cardinality(probes) = 9
            /\ Cardinality({i \in probes : script[i].expect}) = 2
            /\ \A i \in probes :
                  /\ script[i].call = "isRangeActive"
                  /\ KeyLess(script[i].range.begin, script[i].range.end)
                  /\ Within(script[i].range, unitClient.range)
                  /\ script[i].expect = Within(script[i].range, activeRange)
                  /\ (unitClient.step \in probes /\ failed = 0) =>
                        isRangeActive(verifyBlobRange(gran, script[i].range))
                            = Within(script[i].range, activeRange)

\* the nine probes have passed; the purge of the tear-down is next
C12_Witness ==
    /\ unitClient.pc = "scenario" /\ unitClient.op = VERIFY_RANGE_UNIT
    /\ failed = 0
    /\ unitClient.step = LineStep(Script(unitClient), 310)
    /\ Script(unitClient)[unitClient.step - 1].line = 358

\* C13: in verifyRangeGapUnit, for every rangeCount and every gap index, the
\* boundaries run strictly increasing from range.begin to range.end and cut
\* the outer range into rangeCount contiguous sub-ranges; each of them but
\* the gap is blobbified and checked active, the gap is checked inactive, no
\* ASSERT of the loop fails, and when the loop is over the gap is neither
\* listed nor has granules and verifyBlobRange of the outer range is invalid.
C13_GapBreaksCoverage ==
    (unitClient.pc = "scenario" /\ unitClient.op = VERIFY_RANGE_GAP_UNIT) =>
        LET script == Script(unitClient)
            rangeCount == unitClient.rangeCount
            gap == unitClient.rangeToNotBlobbify
            boundaries == gapBoundaries(unitClient.range, rangeCount)
            sub == [i \in 0..(rangeCount - 1) |->
                       KeyRangeRef(boundaries[i + 1], boundaries[i + 2])]
            calls(name) == {i \in 1..LineStep(script, 391) :
                              script[i].call = name}
        IN  /\ Len(boundaries) = rangeCount + 1
            /\ boundaries[1] = unitClient.range.begin
            /\ boundaries[Len(boundaries)] = unitClient.range.end
            /\ \A i \in 1..rangeCount : KeyLess(boundaries[i], boundaries[i + 1])
            /\ {script[i].range : i \in calls("blobbify")}
                  = {sub[i] : i \in (0..(rangeCount - 1)) \ {gap}}
            /\ \A name \in {"poll", "list", "granules"} :
                  {<<script[i].range, script[i].expect>> : i \in calls(name)}
                      = {<<sub[i], i # gap>> : i \in 0..(rangeCount - 1)}
            /\ failed \notin {383, 222, 234, 391}
            /\ (unitClient.step = LineStep(script, 391) /\ failed = 0) =>
                  /\ Overlapping(blob, unitClient.range)
                        = {sub[i] : i \in (0..(rangeCount - 1)) \ {gap}}
                  /\ listBlobbifiedRanges(blob, sub[gap]) = << >>
                  /\ getBlobGranuleRanges(gran, sub[gap]) = << >>
                  /\ \A i \in (0..(rangeCount - 1)) \ {gap} :
                        isRangeActive(verifyBlobRange(gran, sub[i]))
                  /\ verifyBlobRange(gran, unitClient.range) = invalidVersion

\* the gap lies between two blobbified sub-ranges and isRangeActive of the
\* outer range has returned false
C13_Witness ==
    /\ unitClient.pc = "scenario" /\ unitClient.op = VERIFY_RANGE_GAP_UNIT
    /\ unitClient.rangeCount >= 3
    /\ unitClient.rangeToNotBlobbify \in 1..(unitClient.rangeCount - 2)
    /\ failed = 0
    /\ unitClient.step = LineStep(Script(unitClient), 391) + 1

\* C14 as stated: every enabled scenario (verifyRangeUnit, verifyRangeGapUnit,
\* blobbifyIdempotentUnit) leaves a clean namespace: its last calls are the
\* tear-down of what it blobbified (force purge, wait, unblobbify asserted
\* true), and once it has returned no blobbified "U_" range is in the store.
C14_CleanNamespace ==
    /\ (unitClient.pc = "scenario" /\ unitClient.op \notin excludedTypes) =>
          LET script == Script(unitClient)
              n == Len(script)
          IN  /\ script[n].call = "unblobbify" /\ script[n].expect
              /\ script[n - 1].call = "waitPurge" /\ script[n - 1].expect
              /\ script[n - 2].call = "purge" /\ script[n - 2].expect
              /\ script[n - 2].range = script[n].range
              /\ script[n - 1].range = script[n].range
    /\ unitClient.pc = "delay" => {r \in blob : r.begin[1] = 85} = {}

\* C15 as stated: in blobbifyIdempotentUnit, once the force purge of the
\* outer range has completed, setRange(r, false) returns false on each of the
\* eight misaligned ranges r (no ASSERT of lines 534 to 555 fails), against
\* the store whose force purge removes the purged range from the blob
\* metadata and whose unblobbify of a range that no blobbified range
\* intersects returns true.
C15_MisalignedUnblobbifyFalse ==
    (unitClient.pc = "scenario" /\ unitClient.op = BLOBBIFY_IDEMPOTENT) =>
        LET script == Script(unitClient)
        IN  /\ failed \notin {534, 537, 540, 543, 546, 549, 552, 555}
            /\ (/\ failed = 0
                /\ unitClient.step - LineStep(script, 534) \in 0..7) =>
                   ~unblobbifyResult(blob, script[unitClient.step].range)

\* a step in which the driver starts an unregister
UnregisterStart ==
    /\ failed' # 134
    /\ (/\ client.pc \notin {"purge", "waitPurge", "unblobbify", "unregistered"}
        /\ client'.pc \in {"purge", "unblobbify"}) =>
           /\ activeRanges # << >>
           /\ \E randomRangeIdx \in 1..Len(activeRanges) :
                 /\ client'.range = activeRanges[randomRangeIdx]
                 /\ activeRanges' = swapAndPop(activeRanges, randomRangeIdx)
    /\ (client.pc = "waitNextOp" /\ client'.pc # "waitNextOp"
        /\ activeRanges = << >> /\ phase' = "running") =>
           client'.pc = "blobbify"

\* C16: the driver starts an unregister only when activeRanges is not empty
\* (with activeRanges empty its tick registers), so the index taken by
\* unregisterRandomRange is an index of activeRanges and the range it removes
\* is the one at that index, whatever the unit runner does in between.
C16_UnregisterIndexValid == [][UnregisterStart]_vars

\* the driver has unregistered the last range of activeRanges while a
\* scenario of the unit runner is under way
C16_Witness ==
    /\ client.pc \in {"purge", "unblobbify"} /\ activeRanges = << >>
    /\ client.range \in hist.blobbified
    /\ unitClient.pc = "scenario" /\ unitClient.step > 1

\* the ranges the driver has registered or is registering, and the outer
\* range of the scenario the unit runner is in
PickedRanges ==
    hist.blobbified \cup RangesOf(activeRanges)
    \cup (IF client.pc \in {"blobbify", "registered"} THEN {client.range}
          ELSE {})
    \cup (IF unitClient.pc = "scenario" THEN {unitClient.range} ELSE {})

\* C17 as stated: every range the driver registers and every outer range the
\* unit runner picks is single-key-wide: its end is its begin followed by a
\* zero byte.
C17_SingleKeyWide ==
    \A r \in PickedRanges : r.end = r.begin \o <<0>>

\* C17 amended: every such range is the prefix range of its key k ("R_" or
\* "U_" and the generated key): its end is k with the last byte incremented,
\* so it holds k and the keys that begin with k, and no key that sorts after
\* them or before k.
C17_PrefixRanges ==
    \A r \in PickedRanges :
        LET k == r.begin
            n == Len(k)
        IN  /\ k[2] = 95 /\ k[1] \in {82, 85}
            /\ Len(r.end) = n
            /\ \A i \in 1..(n - 1) : r.end[i] = k[i]
            /\ r.end[n] = k[n] + 1
            /\ \A suffix \in {<< >>, <<0>>, <<65>>, <<65, 70>>, <<66>>, <<255>>} :
                  /\ KeyLeq(k, k \o suffix)
                  /\ KeyLess(k \o suffix, r.end)
            /\ ~KeyLess(r.end, r.end)
            /\ k[n] > 0 =>
                  KeyLess([k EXCEPT ![n] = @ - 1] \o <<255>>, k)

\* the driver has registered a range and the unit runner has picked an outer
\* range, whose sub-range is blobbified inside it
C17_Witness ==
    /\ Len(activeRanges) >= 1 /\ activeRanges[1] \in blob
    /\ unitClient.pc = "scenario"
    /\ \E r \in blob : r # unitClient.range /\ Within(r, unitClient.range)

\* C18: the unit runner dispatches verifyRangeUnit, verifyRangeGapUnit or
\* blobbifyIdempotentUnit and never rangesMisalignedUnit or reBlobbifyUnit: a
\* draw of an excluded scenario sends the pick loop round again with one
\* retry less, and the ASSERT of line 621 ends the run, with nothing
\* dispatched, when and only when the 1000 retries are used up.
C18_NeverDisabled ==
    /\ unitClient.pc \in {"pick", "scenario"}
    /\ unitClient.pc = "scenario" =>
          unitClient.op \in {VERIFY_RANGE_UNIT, VERIFY_RANGE_GAP_UNIT,
                             BLOBBIFY_IDEMPOTENT}
    /\ unitClient.pc = "pick" =>
          \/ unitClient.op = OP_COUNT /\ unitClient.loopTries = LoopTries
          \/ /\ unitClient.op \in {RANGES_MISALIGNED, RE_BLOBBIFY}
             /\ unitClient.loopTries \in (-1)..(LoopTries - 1)
    /\ failed \in {0, 621}
    /\ failed = 621 <=> (unitClient.pc = "pick" /\ unitClient.loopTries = -1)

\* every draw was of an excluded scenario until no retry was left
C18_Witness ==
    /\ unitClient.pc = "pick" /\ unitClient.loopTries = -1 /\ failed = 621
    /\ unitClient.op \in excludedTypes

\* a step of a scenario at the getBlobGranuleRanges of checkRange
GranuleReadStep ==
    (/\ unitClient.pc = "scenario" /\ failed = 0
     /\ Script(unitClient)[unitClient.step].call = "granules"
     /\ unitClient' # unitClient) =>
        LET script == Script(unitClient)
            next == IF unitClient.step = Len(script) THEN UnitTask("delay")
                    ELSE [unitClient EXCEPT !.step = @ + 1]
        IN  \/ /\ unitClient.onError
               /\ unitClient' = [unitClient EXCEPT !.onError = FALSE]
               /\ failed' = 0
               /\ blob' = blob /\ gran' = gran
            \/ /\ ~unitClient.onError
               /\ unitClient' = [unitClient EXCEPT !.onError = TRUE,
                                                   !.errorsLeft = @ - 1]
               /\ unitClient.errorsLeft > 0
               /\ failed' = 0
               /\ blob' = blob /\ gran' = gran
            \/ /\ ~unitClient.onError
               /\ unitClient' = next
               /\ failed' = 0
               /\ granuleAsserts(script[unitClient.step].range,
                                 getBlobGranuleRanges(gran,
                                     script[unitClient.step].range),
                                 script[unitClient.step].expect)

\* C19: a transient error thrown by getBlobGranuleRanges in checkRange does
\* not reach the caller: the attempt that throws evaluates no ASSERT and
\* changes nothing but to wait for onError, after which the read is issued
\* again at the same place; the loop is left by the first attempt that
\* returns a list, on which the ASSERTs are evaluated; for any number of
\* errors up to the bound.
C19_TransientRetried == [][GranuleReadStep]_vars

\* the read of checkRange has thrown for the last time and waits for onError
C19_Witness ==
    /\ unitClient.pc = "scenario" /\ failed = 0
    /\ Script(unitClient)[unitClient.step].call = "granules"
    /\ unitClient.onError /\ unitClient.errorsLeft = 0
    /\ unitClient.op = VERIFY_RANGE_GAP_UNIT
    /\ unitClient.step > LineStep(Script(unitClient), 234)

\* C20 as stated: in rangesMisalignedUnit the sub-range is purged twice; the
\* first purge is not forced, and after it the sub-range and the outer range
\* are still active; the second purge is forced, and after it neither is
\* active and getBlobGranuleRanges of the outer range is empty (no ASSERT of
\* lines 432 to 453 fails).
C20_SecondPurgeForced ==
    (unitClient.pc = "scenario" /\ unitClient.op = RANGES_MISALIGNED) =>
        LET script == Script(unitClient)
            subRange == unitActiveRange(unitClient.range)
            first == LineStep(script, 427)
            second == LineStep(script, 437)
        IN  /\ failed \notin {432, 435, 442, 445, 453}
            /\ unitClient.step = first + 1 =>
                  purge \subseteq {[range |-> subRange, force |-> FALSE]}
            /\ (failed = 0 /\ unitClient.step \in (first + 2)..second) =>
                  /\ isRangeActive(verifyBlobRange(gran, subRange))
                  /\ isRangeActive(verifyBlobRange(gran, unitClient.range))
            /\ unitClient.step = second + 1 =>
                  purge \subseteq {[range |-> subRange, force |-> TRUE]}
            /\ (failed = 0 /\ unitClient.step > second + 1) =>
                  /\ ~isRangeActive(verifyBlobRange(gran, subRange))
                  /\ ~isRangeActive(verifyBlobRange(gran, unitClient.range))
                  /\ getBlobGranuleRanges(gran, unitClient.range) = << >>

\* C21: the ranges of activeRanges and inactiveRanges, and one more while an
\* unregister is between its swapAndPop and its push_back, are as many as
\* the registrations that have completed; a range taken out of activeRanges
\* is never in it again, so none moves back from inactiveRanges; and once
\* check has cancelled the driver the two vectors hold all completed
\* registrations but the one whose unregister was cut, if there is one.
C21_OracleConserved ==
    LET held == Len(activeRanges) + Len(inactiveRanges)
        completed == Cardinality(hist.registered)
        cut == hist.issued \ RangesOf(inactiveRanges)
    IN  /\ client.pc # "cancelled" =>
              held + (IF client.pc \in {"purge", "waitPurge", "unblobbify",
                                        "unregistered"} THEN 1 ELSE 0)
                  = completed
        /\ client.pc = "cancelled" =>
              /\ Cardinality(cut) <= 1
              /\ held = completed - Cardinality(cut)
        /\ RangesOf(activeRanges) \cup RangesOf(inactiveRanges)
              \subseteq hist.registered
        /\ Cardinality(RangesOf(activeRanges) \cup RangesOf(inactiveRanges))
              = held
        /\ \A r \in hist.issued : r \notin RangesOf(activeRanges)
        /\ \A r \in RangesOf(inactiveRanges) : r \in hist.issued

\* check has returned after it cancelled the driver in the middle of an
\* unregister: the vectors hold one range less than was registered
C21_Witness ==
    /\ checkResult = "true" /\ client.pc = "cancelled"
    /\ Len(activeRanges) + Len(inactiveRanges)
          = Cardinality(hist.registered) - 1
    /\ Len(activeRanges) >= 1

\* the ranges of driver operations that have begun at the store and have
\* not completed: blobbified and not yet pushed to activeRanges, or taken
\* out of activeRanges and not yet pushed to inactiveRanges
DriverInProgress ==
    (hist.blobbified \ hist.registered)
    \cup (hist.issued \ RangesOf(inactiveRanges))

\* what the store holds under the prefix "U_": ranges and purges
UnitInStore ==
    {r \in blob : r.begin[1] = 85}
    \cup {q.range : q \in {x \in purge : x.range.begin[1] = 85}}

\* C22: of one client, at most one register or unregister is in progress
\* (the store holds at most one range and at most one purge of an
\* uncompleted driver operation, that of the driver task) and at most one
\* scenario (what the store holds under "U_" lies in the outer range of the
\* scenario the runner is in); a client other than client 0 runs no
\* scenario, its unit task is complete from start on, and its check returns
\* on its range checks alone.
C22_OneOperationEach ==
    /\ Cardinality(DriverInProgress) <= 1
    /\ client.pc \in {"none", "waitNextOp"} => DriverInProgress = {}
    /\ client.pc \in {"blobbify", "registered", "purge", "waitPurge",
                       "unblobbify", "unregistered"}
          => DriverInProgress \subseteq {client.range}
    /\ \A q \in purge :
          q.range.begin[1] = 82 =>
              /\ client.pc \in {"waitPurge", "cancelled"}
              /\ q.range \in DriverInProgress
    /\ \A r \in UnitInStore :
          unitClient.pc = "scenario" /\ Within(r, unitClient.range)
    /\ unitClient.pc \in {"scenario", "pick", "delay"} => clientId = 0
    /\ clientId # 0 =>
          /\ unitClient.pc \in {"none", "returned"}
          /\ phase \in {"running", "checking", "done"}
                => unitClient.pc = "returned"
          /\ client.pc # "cancelled" =>
              KeysMade(nextKey, drawn)
                = Cardinality(hist.registered)
                  + Cardinality(hist.blobbified \ hist.registered)
                  + (IF client.pc = "blobbify" THEN 1 ELSE 0)

\* the check of client 1 has returned on its range checks, after it cut the
\* driver in an operation
C22_Witness ==
    /\ clientId = 1 /\ checkResult = "true" /\ Len(checks) >= 1
    /\ unitClient.pc = "returned" /\ DriverInProgress # {}

=============================================================================
